---- MODULE Spec2Model ----
(***************************************************************************)
(* Model of download_ghibli_images.py: the filename sanitizer, the         *)
(* extension derivation, download_image and the fetch-and-download loop.   *)
(*                                                                         *)
(* Strings are sequences of tokens.  Every character the code treats      *)
(* specially (the nine characters of the sanitizer's character class, the *)
(* space, the underscore, '.', '#') is a token of its own; a run of other *)
(* characters may be written as one token ("Castle", "http").             *)
(***************************************************************************)
EXTENDS Integers, Sequences, FiniteSets, TLC

VARIABLES
    pc,              \* position of the single thread of control
    platform,        \* which os.path the interpreter binds: "posix" or "nt"
    meta,            \* the metadata response as received (NoMeta before)
    films,           \* the parsed list of film records
    idx,             \* position of the for loop in films (1-based)
    download_count,
    error_count,
    filepath,        \* destination of the download in progress
    file_extension,  \* extension chosen for the download in progress
    disk,            \* the files of the output directory
    log,             \* every HTTP request issued so far, in order
    inflight,        \* HTTP requests issued and not yet answered
    outcomes,        \* one entry per record the loop has finished with
    exit_code,       \* -1 while the process runs, then its exit status
    filename,        \* sanitizer run: the input string
    sanitized,       \* sanitizer run: sanitize_filename(filename)
    resanitized,     \* sanitizer run: sanitize_filename(sanitized)
    san_pc           \* sanitizer run: how many applications were made

vars == <<pc, platform, meta, films, idx, download_count, error_count,
          filepath, file_extension, disk, log, inflight, outcomes, exit_code,
          filename, sanitized, resanitized, san_pc>>

pipeline_vars == <<pc, platform, meta, films, idx, download_count, error_count,
                   filepath, file_extension, disk, log, inflight, outcomes,
                   exit_code>>

sanitizer_vars == <<filename, sanitized, resanitized, san_pc>>

-----------------------------------------------------------------------------
(* Bounds *)

\* longest sanitizer input, in characters
MaxLen == 4

\* longest metadata list, in records
MaxFilms == 2

-----------------------------------------------------------------------------
(* sanitize_filename *)

\* the character class [\\/*?:"<>|] of the first re.sub
InvalidChars == {"\\", "/", "*", "?", ":", "\"", "<", ">", "|"}

\* re.sub(r'[\\/*?:"<>|]', "", filename)
RemoveInvalid(s) == SelectSeq(s, LAMBDA c: c \notin InvalidChars)

\* sanitized.replace(" ", "_")
ReplaceSpaces(s) == [i \in 1..Len(s) |-> IF s[i] = " " THEN "_" ELSE s[i]]

\* re.sub(r'_+', '_', sanitized): of every run of underscores the first is kept
RECURSIVE CollapseUnderscores(_)
CollapseUnderscores(s) ==
    IF Len(s) <= 1 THEN s
    ELSE IF s[1] = "_" /\ s[2] = "_" THEN CollapseUnderscores(Tail(s))
    ELSE <<s[1]>> \o CollapseUnderscores(Tail(s))

RECURSIVE LStrip(_)
LStrip(s) ==
    IF s # <<>> /\ s[1] = "_" THEN LStrip(Tail(s)) ELSE s

RECURSIVE RStrip(_)
RStrip(s) ==
    IF s # <<>> /\ s[Len(s)] = "_" THEN RStrip(SubSeq(s, 1, Len(s) - 1)) ELSE s

\* sanitized.strip('_')
StripUnderscores(s) == RStrip(LStrip(s))

\* a sanitizer that forgets the final strip('_')
sanitize_no_strip(filename_) ==
    CollapseUnderscores(ReplaceSpaces(RemoveInvalid(filename_)))

\* a sanitizer that replaces the spaces last, after collapsing and stripping
sanitize_spaces_last(filename_) ==
    ReplaceSpaces(StripUnderscores(CollapseUnderscores(RemoveInvalid(filename_))))

sanitize_filename(filename_) ==
    StripUnderscores(CollapseUnderscores(ReplaceSpaces(RemoveInvalid(filename_))))

-----------------------------------------------------------------------------
(* The sanitizer on its own: every input up to MaxLen characters *)

SanAlphabet == InvalidChars \cup {"a", " ", "_"}

SanInputs == UNION {[1..n -> SanAlphabet] : n \in 0..MaxLen}

NotRun == <<"-">>

Sanitize ==
    /\ san_pc = 0
    /\ sanitized' = sanitize_filename(filename)
    /\ san_pc' = 1
    /\ UNCHANGED <<filename, resanitized>>
    /\ UNCHANGED pipeline_vars

SanitizeAgain ==
    /\ san_pc = 1
    /\ resanitized' = sanitize_filename(sanitized)
    /\ san_pc' = 2
    /\ UNCHANGED <<filename, sanitized>>
    /\ UNCHANGED pipeline_vars

-----------------------------------------------------------------------------
(* Extension and destination path *)

DOWNLOAD_DIR == "ghibli_movie_images"

\* os.sep and os.altsep of the os.path module in use
Seps(plat) == IF plat = "nt" THEN {"\\", "/"} ELSE {"/"}

\* str.rfind over a set of characters, 1-based; 0 when none occurs
RFind(p, chars) ==
    LET hits == {i \in 1..Len(p) : p[i] \in chars}
    IN  IF hits = {} THEN 0 ELSE CHOOSE i \in hits : \A j \in hits : j <= i

\* os.path.splitext(p)[1]: from the last dot, when that dot comes after the
\* last separator and some character between the two is not a dot
splitext_ext(p, plat) ==
    LET sepIndex == RFind(p, Seps(plat))
        dotIndex == RFind(p, {"."})
    IN  IF /\ dotIndex > sepIndex
           /\ \E k \in (sepIndex + 1)..(dotIndex - 1) : p[k] # "."
        THEN SubSeq(p, dotIndex, Len(p))
        ELSE <<>>

\* file_extension: splitext of the whole URL string, ".jpg" when empty
FileExtension(image_url, plat) ==
    LET ext == splitext_ext(image_url, plat)
    IN  IF ext = <<>> THEN <<".", "jpg">> ELSE ext

\* os.path.join(DOWNLOAD_DIR, name) for a name that starts with no separator
os_path_join(dir, name, plat) ==
    <<dir, IF plat = "nt" THEN "\\" ELSE "/">> \o name

\* film.get(key, default)
dict_get(film, key, default) ==
    IF key \in DOMAIN film THEN film[key] ELSE default

\* film.get("title", "unknown_title")
TitleOf(film) == dict_get(film, "title", <<"unknown", "_", "title">>)

\* film.get("image"): None, modelled as the empty string, when absent
ImageOf(film) == dict_get(film, "image", <<>>)

\* the destination of a film's image
DestinationOf(film, plat) ==
    os_path_join(DOWNLOAD_DIR,
                 sanitize_filename(TitleOf(film))
                     \o FileExtension(ImageOf(film), plat),
                 plat)

-----------------------------------------------------------------------------
(* HTTP responses and download_image *)

\* final status codes requests can hand back: a 2xx, a 3xx that is not a
\* followed redirect, a 4xx and a 5xx
Statuses == {200, 304, 404, 503}

\* raise_for_status that is never called
raise_for_status_omitted(status) == FALSE

\* raise_for_status that takes only server errors for errors
raise_for_status_5xx_only(status) == status >= 500 /\ status < 600

\* response.raise_for_status(): raises HTTPError for 4xx and 5xx
raise_for_status(status) == status >= 400 /\ status < 600

\* what one image GET can meet: no response at all (connection error,
\* timeout, invalid URL), or a status and then an open() that may fail and a
\* body whose streaming ("stream") or writing ("write") may fail
ImgResponses ==
    {[connected |-> FALSE, status |-> 0, open_ok |-> FALSE, body |-> "none"]}
    \cup [connected : {TRUE}, status : Statuses, open_ok : {FALSE},
          body : {"none"}]
    \cup [connected : {TRUE}, status : Statuses, open_ok : {TRUE},
          body : {"ok", "stream", "write"}]

\* a download_image that opens the destination before checking the status
FileOpenedBeforeStatus(resp) == resp.connected /\ resp.open_ok

\* whether download_image gets as far as open(filepath, 'wb')
FileOpened(resp) ==
    resp.connected /\ ~raise_for_status(resp.status) /\ resp.open_ok

\* the exception raised inside download_image's try block
ExceptionRaised(resp) ==
    IF ~resp.connected THEN "RequestException"
    ELSE IF raise_for_status(resp.status) THEN "RequestException"
    ELSE IF ~FileOpened(resp) THEN "IOError"
    ELSE IF resp.body = "stream" THEN "RequestException"
    ELSE IF resp.body = "write" THEN "IOError"
    ELSE "none"

\* a download_image without its except IOError clause
HandlesRequestExceptionOnly(exc) == exc = "RequestException"

\* the except clauses of download_image
Handles(exc) == exc \in {"RequestException", "IOError"}

\* the directory after download_image: open(..., 'wb') creates or truncates
\* the destination, and the file is whole only if nothing was raised
DiskAfter(d, path, by, resp) ==
    IF FileOpened(resp)
    THEN {f \in d : f.path # path}
         \cup {[path |-> path, by |-> by,
                complete |-> ExceptionRaised(resp) = "none"]}
    ELSE d

\* an error counter that is bumped on every attempt
NextErrorCountAlways(count, ok) == count + 1

\* download_count += 1 when download_image returned True
NextDownloadCount(count, ok) == IF ok THEN count + 1 ELSE count

\* error_count += 1 when download_image returned False
NextErrorCount(count, ok) == IF ok THEN count ELSE count + 1

\* a loop that tries a failed record again
NextIndexRetry(i, ok) == IF ok THEN i + 1 ELSE i

\* the for loop moves to the next record whatever the outcome
NextIndex(i, ok) == i + 1

-----------------------------------------------------------------------------
(* The metadata list *)

Title1 == <<"Castle", " ", "in", " ", "the", " ", "Sky", ":", " ", "Part",
            " ", "1">>

\* another title with the same sanitized form
Title2 == <<"Castle", " ", "in", " ", "the", " ", "Sky", " ", "Part", "_",
            "1", "?">>

UrlPng == <<"http", ":", "/", "/", "h", ".", "io", "/", "a", ".", "png">>

UrlNoExt == <<"http", ":", "/", "/", "h", ".", "io", "/", "img">>

UrlQuery == <<"http", ":", "/", "/", "h", ".", "io", "/", "a", ".", "jpg",
              "?", "v", "=", "1">>

\* the film objects a metadata list is drawn from: "title" and "image" are
\* strings, and either key may be missing
Records ==
    { [title |-> Title1, image |-> UrlPng],
      [title |-> Title2, image |-> UrlPng],
      [title |-> Title1],
      [image |-> UrlNoExt],
      [title |-> Title2, image |-> UrlQuery],
      [title |-> Title2, image |-> <<>>] }

FilmLists == UNION {[1..n -> Records] : n \in 0..MaxFilms}

\* what the metadata GET can meet: no response, or a status and a body that
\* parses as JSON (to the list in body) or does not
MetaResponses ==
    {[connected |-> FALSE, status |-> 0, json_ok |-> FALSE, body |-> <<>>]}
    \cup [connected : {TRUE}, status : Statuses, json_ok : {FALSE},
          body : {<<>>}]
    \cup [connected : {TRUE}, status : Statuses, json_ok : {TRUE},
          body : FilmLists]

NoMeta == [connected |-> FALSE, status |-> -1, json_ok |-> FALSE, body |-> <<>>]

\* the exception raised inside the try block of lines 48-51
FetchException(resp) ==
    IF ~resp.connected THEN "RequestException"
    ELSE IF raise_for_status(resp.status) THEN "RequestException"
    ELSE IF ~resp.json_ok THEN "ValueError"
    ELSE "none"

-----------------------------------------------------------------------------
(* The pipeline *)

NoPath == <<>>

PipelineIdle ==
    /\ meta = NoMeta
    /\ films = <<>>
    /\ idx = 1
    /\ download_count = 0
    /\ error_count = 0
    /\ filepath = NoPath
    /\ file_extension = <<>>
    /\ disk = {}
    /\ log = <<>>
    /\ inflight = {}
    /\ outcomes = <<>>
    /\ exit_code = -1

Init ==
    /\ pc = "start"
    /\ platform \in {"posix", "nt"}
    /\ PipelineIdle
    /\ filename = <<>>
    /\ sanitized = NotRun
    /\ resanitized = NotRun
    /\ san_pc = 0

\* requests.get(API_URL, timeout=10) is issued
FetchMetadata ==
    /\ pc = "start"
    /\ log' = Append(log, <<"meta", 0>>)
    /\ inflight' = inflight \cup {<<"meta", 0>>}
    /\ pc' = "meta_wait"
    /\ UNCHANGED <<platform, meta, films, idx, download_count, error_count,
                   filepath, file_extension, disk, outcomes, exit_code>>
    /\ UNCHANGED sanitizer_vars

\* the metadata request returns or raises; both except clauses sys.exit(1),
\* otherwise the directory is made and the loop is entered
MetadataResponse ==
    /\ pc = "meta_wait"
    /\ \E resp \in MetaResponses :
         /\ meta' = resp
         /\ inflight' = inflight \ {<<"meta", 0>>}
         /\ IF FetchException(resp) = "none"
            THEN /\ films' = resp.body
                 /\ pc' = "loop"
                 /\ exit_code' = exit_code
            ELSE /\ films' = films
                 /\ pc' = "exit"
                 /\ exit_code' = 1
    /\ UNCHANGED <<platform, idx, download_count, error_count, filepath,
                   file_extension, disk, log, outcomes>>
    /\ UNCHANGED sanitizer_vars

Skipped == [kind |-> "skipped"]

\* a record without an image URL: the warning and continue
SkipRecord ==
    /\ pc = "loop"
    /\ idx <= Len(films)
    /\ ImageOf(films[idx]) = <<>>
    /\ outcomes' = Append(outcomes, Skipped)
    /\ idx' = idx + 1
    /\ UNCHANGED <<pc, platform, meta, films, download_count, error_count,
                   filepath, file_extension, disk, log, inflight, exit_code>>
    /\ UNCHANGED sanitizer_vars

\* a record with an image URL: the destination is composed and
\* download_image issues requests.get(url, stream=True, timeout=15)
StartDownload ==
    /\ pc = "loop"
    /\ idx <= Len(films)
    /\ ImageOf(films[idx]) # <<>>
    /\ file_extension' = FileExtension(ImageOf(films[idx]), platform)
    /\ filepath' = DestinationOf(films[idx], platform)
    /\ log' = Append(log, <<"image", idx>>)
    /\ inflight' = inflight \cup {<<"image", idx>>}
    /\ pc' = "image_wait"
    /\ UNCHANGED <<platform, meta, films, idx, download_count, error_count,
                   disk, outcomes, exit_code>>
    /\ UNCHANGED sanitizer_vars

\* the rest of download_image and the counting of its result; an exception
\* that download_image does not catch ends the process with a traceback
FinishDownload ==
    /\ pc = "image_wait"
    /\ \E resp \in ImgResponses :
         LET exc == ExceptionRaised(resp)
             ok  == exc = "none"
         IN  /\ inflight' = inflight \ {<<"image", idx>>}
             /\ disk' = DiskAfter(disk, filepath, idx, resp)
             /\ IF ok \/ Handles(exc)
                THEN /\ download_count' = NextDownloadCount(download_count, ok)
                     /\ error_count' = NextErrorCount(error_count, ok)
                     /\ outcomes' = Append(outcomes,
                            [kind |-> "attempted", resp |-> resp,
                             returned |-> ok, dest |-> filepath])
                     /\ idx' = NextIndex(idx, ok)
                     /\ pc' = "loop"
                     /\ exit_code' = exit_code
                ELSE /\ pc' = "crash"
                     /\ exit_code' = 1
                     /\ outcomes' = Append(outcomes,
                            [kind |-> "raised", resp |-> resp,
                             returned |-> FALSE, dest |-> filepath])
                     /\ UNCHANGED <<download_count, error_count, idx>>
    /\ UNCHANGED <<platform, meta, films, filepath, file_extension, log>>
    /\ UNCHANGED sanitizer_vars

\* the loop is over: the final report, and the process ends normally
Report ==
    /\ pc = "loop"
    /\ idx > Len(films)
    /\ pc' = "done"
    /\ exit_code' = 0
    /\ UNCHANGED <<platform, meta, films, idx, download_count, error_count,
                   filepath, file_extension, disk, log, inflight, outcomes>>
    /\ UNCHANGED sanitizer_vars

Next ==
    \/ FetchMetadata
    \/ MetadataResponse
    \/ SkipRecord
    \/ StartDownload
    \/ FinishDownload
    \/ Report

Spec == Init /\ [][Next]_vars

-----------------------------------------------------------------------------
(* The sanitizer specification *)

SanInit ==
    /\ pc = "sanitizer"
    /\ platform = "posix"
    /\ PipelineIdle
    /\ filename \in SanInputs
    /\ sanitized = NotRun
    /\ resanitized = NotRun
    /\ san_pc = 0

SanNext ==
    \/ Sanitize
    \/ SanitizeAgain

SanSpec == SanInit /\ [][SanNext]_vars

-----------------------------------------------------------------------------
(* Vocabulary of the properties *)

\* the characters the specification calls reserved
Reserved == {"\\", "/", ":", "*", "?", "\"", "<", ">", "|"}

HttpError(status) == status \in 400..599

Non2xx(status) == status \notin 200..299

ImageRequests == {i \in 1..Len(log) : log[i][1] = "image"}

NoDownloads ==
    /\ ImageRequests = {}
    /\ disk = {}
    /\ outcomes = <<>>
    /\ idx = 1
    /\ download_count = 0
    /\ error_count = 0

Attempted == {i \in 1..Len(outcomes) : outcomes[i].kind = "attempted"}

Succeeded == {i \in Attempted : outcomes[i].returned}

Failed == {i \in Attempted : ~outcomes[i].returned}

HasNoImage(film) == "image" \notin DOMAIN film \/ film.image = <<>>

\* the downloads that were answered without an error status and whose
\* destination could be opened
OpenedFile ==
    {i \in Attempted : /\ outcomes[i].resp.connected
                       /\ ~HttpError(outcomes[i].resp.status)
                       /\ outcomes[i].resp.open_ok}

DiskPaths == {f.path : f \in disk}

\* the last entry of the outcomes after a step
LastOutcome == outcomes'[Len(outcomes')]

\* the download in progress ends in this step
DownloadEnds == pc = "image_wait" /\ pc' # "image_wait"

-----------------------------------------------------------------------------
(* C1 *)

\* C1, as amended: if the metadata GET fails (network error, or a 4xx or 5xx
\* status) or its body does not parse as JSON, the process ends with exit
\* code 1 and nothing was downloaded: no image request, no file, no record
\* looked at.
C1_MetadataFailureExits ==
    (/\ meta # NoMeta
     /\ \/ ~meta.connected
        \/ HttpError(meta.status)
        \/ ~meta.json_ok)
    => (pc = "exit" /\ exit_code = 1 /\ NoDownloads)

\* C1 as stated: every status outside 2xx ends the process
C1_Non2xxExits ==
    (/\ meta # NoMeta
     /\ \/ ~meta.connected
        \/ Non2xx(meta.status)
        \/ ~meta.json_ok)
    => (pc = "exit" /\ exit_code = 1 /\ NoDownloads)

\* the metadata request was answered 503 with a body that would have parsed
\* to a list of films, and the process has ended
C1_Witness ==
    /\ pc = "exit"
    /\ meta.connected
    /\ meta.status = 503
    /\ meta.json_ok
    /\ Len(meta.body) > 0

-----------------------------------------------------------------------------
(* C2 *)

\* what is left of the run: three per record still to go through, and the
\* position inside the iteration
Remaining ==
    3 * (Len(films) + 1 - idx)
    + (IF pc = "loop" THEN 2 ELSE IF pc = "image_wait" THEN 1 ELSE 0)

InLoop == pc \in {"loop", "image_wait"}

\* C2: once the list is fetched and parsed, whatever the downloads meet
\* (network error, HTTP error status, local write error), the run is never
\* aborted.  Every step into the loop leaves the process running at a
\* position from which the loop can go on (a record to look at, a download
\* to finish, or the report to make); every step from the loop stays on
\* the same list, one step nearer its end, or is the final report with
\* every record gone through and exit code 0.
C2_FailuresNeverAbort ==
    [][/\ InLoop' => /\ exit_code' = -1
                     /\ idx' \in 1..(Len(films') + 1)
                     /\ pc' = "image_wait" => idx' <= Len(films')
                     /\ Remaining' > 0
       /\ InLoop =>
            /\ pc' \in {"loop", "image_wait", "done"}
            /\ films' = films
            /\ Remaining' < Remaining
            /\ pc' = "done" => /\ exit_code' = 0
                               /\ idx' = Len(films) + 1
                               /\ Len(outcomes') = Len(films)
                               /\ \A i \in 1..Len(films) :
                                    outcomes'[i].kind # "raised"]_vars

\* a run that ended normally in which a download failed on a local write
\* error and a later record was downloaded
C2_Witness ==
    /\ pc = "done"
    /\ exit_code = 0
    /\ \E i \in Failed : \E j \in Succeeded :
         /\ i < j
         /\ outcomes[i].resp.open_ok
         /\ outcomes[i].resp.body = "write"

-----------------------------------------------------------------------------
(* C3 *)

\* C3, as amended: a download answered with a 4xx or 5xx status counts as a
\* failure (error counter +1, success counter unchanged), leaves the output
\* directory as it was, and the loop goes on to the next record.
C3_HttpErrorIsFailure ==
    [][(/\ DownloadEnds
        /\ LastOutcome.resp.connected
        /\ HttpError(LastOutcome.resp.status))
       => (/\ LastOutcome.kind = "attempted"
           /\ ~LastOutcome.returned
           /\ error_count' = error_count + 1
           /\ download_count' = download_count
           /\ disk' = disk
           /\ pc' = "loop"
           /\ idx' = idx + 1)]_vars

\* C3 as stated: every status outside 2xx is a failure that writes no file
C3_Non2xxIsFailure ==
    [][(/\ DownloadEnds
        /\ LastOutcome.resp.connected
        /\ Non2xx(LastOutcome.resp.status))
       => (/\ LastOutcome.kind = "attempted"
           /\ ~LastOutcome.returned
           /\ error_count' = error_count + 1
           /\ download_count' = download_count
           /\ disk' = disk
           /\ pc' = "loop"
           /\ idx' = idx + 1)]_vars

\* a record answered 404 was counted as a failure, left no file, and a later
\* record was downloaded
C3_Witness ==
    \E i \in Failed : \E j \in Succeeded :
        /\ i < j
        /\ outcomes[i].resp.status = 404
        /\ outcomes[i].dest \notin DiskPaths
        /\ error_count = 1
        /\ download_count = 1

-----------------------------------------------------------------------------
(* C4 *)

\* C4: the success counter is the number of records with an image URL whose
\* download returned success, the error counter the number whose download
\* returned failure, a record without an image URL is skipped and counted in
\* neither; after the loop the three add up to the number of records.
C4_CountersMatchOutcomes ==
    (pc \in {"loop", "image_wait", "done"}) =>
        LET skipped == {i \in 1..Len(outcomes) : outcomes[i].kind = "skipped"}
        IN  /\ Len(outcomes) = idx - 1
            /\ skipped = {i \in 1..Len(outcomes) : HasNoImage(films[i])}
            /\ Attempted = (1..Len(outcomes)) \ skipped
            /\ download_count = Cardinality(Succeeded)
            /\ error_count = Cardinality(Failed)
            /\ download_count + error_count + Cardinality(skipped)
                   = Len(outcomes)
            /\ pc = "done" => Len(outcomes) = Len(films)

\* the example of the specification: two records, the first downloaded, the
\* second without an image field
C4_Witness ==
    /\ pc = "done"
    /\ Len(films) = 2
    /\ "image" \in DOMAIN films[1]
    /\ "image" \notin DOMAIN films[2]
    /\ outcomes[2].kind = "skipped"
    /\ download_count = 1
    /\ error_count = 0
    /\ Cardinality(disk) = 1

-----------------------------------------------------------------------------
(* C5 *)

\* C5, as amended: each record produces at most one file, and after a normal
\* run started with an empty output directory the files are exactly the
\* destinations of the downloads that got as far as opening their
\* destination, one file per distinct destination; so there are at most as
\* many files as download attempts, and as many as the success count when
\* those destinations are pairwise distinct and none of these downloads
\* failed after the open.
C5_FilesAreOpenedDestinations ==
    (pc = "done") =>
        /\ DiskPaths = {outcomes[i].dest : i \in OpenedFile}
        /\ Cardinality(disk) = Cardinality(DiskPaths)
        /\ \A i \in 1..Len(films) : Cardinality({f \in disk : f.by = i}) <= 1
        /\ \A f \in disk : f.by \in OpenedFile /\ outcomes[f.by].dest = f.path
        /\ Cardinality(disk) <= download_count + error_count
        /\ (/\ \A i, j \in OpenedFile :
                 i # j => outcomes[i].dest # outcomes[j].dest
            /\ OpenedFile \subseteq Succeeded)
           => Cardinality(disk) = download_count

\* C5 as stated: after a normal run the number of files is the success count
C5_FilesEqualSuccessCount ==
    (pc = "done") => Cardinality(disk) = download_count

\* two records with the same destination were both downloaded: two
\* successes, one file
C5_Witness ==
    /\ pc = "done"
    /\ download_count = 2
    /\ error_count = 0
    /\ Cardinality(disk) = 1

-----------------------------------------------------------------------------
(* C6 and C7, under SanSpec *)

\* C6: the output of sanitize_filename has none of \ / : * ? " < > |, no
\* two underscores in a row, and no underscore at either end.
C6_SanitizedIsClean ==
    (san_pc >= 1) =>
        /\ \A i \in 1..Len(sanitized) : sanitized[i] \notin Reserved
        /\ \A i \in 1..(Len(sanitized) - 1) :
             ~(sanitized[i] = "_" /\ sanitized[i + 1] = "_")
        /\ sanitized # <<>> =>
             (sanitized[1] # "_" /\ sanitized[Len(sanitized)] # "_")

\* an input with a reserved character and a space next to an underscore
\* was sanitized to something that is not empty
C6_Witness ==
    /\ san_pc = 1
    /\ \E i \in 1..Len(filename) : filename[i] \in Reserved
    /\ \E i \in 1..(Len(filename) - 1) :
         filename[i] = " " /\ filename[i + 1] = "_"
    /\ sanitized # <<>>

\* C7: sanitize_filename applied to its own output gives that output.
C7_SanitizeIdempotent ==
    (san_pc = 2) => resanitized = sanitized

\* the sanitizer changed its input, to something not empty, and was applied
\* again
C7_Witness ==
    /\ san_pc = 2
    /\ sanitized # filename
    /\ sanitized # <<>>
    /\ \E i \in 1..Len(filename) : filename[i] = " "

-----------------------------------------------------------------------------
(* C8 *)

\* the name of the destination inside the output directory
FileNameOf(path) == SubSeq(path, 3, Len(path))

\* C8: for every record that reaches a download attempt, the file name
\* written under the output directory has no path separator and none of the
\* reserved characters \ / : * ? " < > |.
C8_FileNameHasNoReservedChar ==
    (pc = "image_wait") =>
        \A i \in 1..Len(FileNameOf(filepath)) :
            FileNameOf(filepath)[i] \notin Reserved

-----------------------------------------------------------------------------
(* C9 *)

\* the part of s before the first c
Before(s, c) ==
    LET hits == {i \in 1..Len(s) : s[i] = c}
    IN  IF hits = {} THEN s
        ELSE SubSeq(s, 1, (CHOOSE i \in hits : \A j \in hits : i <= j) - 1)

\* the part of s from the first c on, empty when there is none
FromFirst(s, c) ==
    LET hits == {i \in 1..Len(s) : s[i] = c}
    IN  IF hits = {} THEN <<>>
        ELSE SubSeq(s, CHOOSE i \in hits : \A j \in hits : i <= j, Len(s))

\* the part of s after the last c, all of s when there is none
AfterLast(s, c) ==
    LET hits == {i \in 1..Len(s) : s[i] = c}
    IN  IF hits = {} THEN s
        ELSE SubSeq(s, (CHOOSE i \in hits : \A j \in hits : j <= i) + 1, Len(s))

\* the path of scheme://authority/path?query#fragment
UrlPath(url) ==
    LET hier == Before(Before(url, "#"), "?")
        marks == {i \in 1..(Len(hier) - 2) :
                     hier[i] = ":" /\ hier[i + 1] = "/" /\ hier[i + 2] = "/"}
    IN  IF marks = {} THEN hier
        ELSE LET m == CHOOSE i \in marks : \A j \in marks : i <= j
             IN  FromFirst(SubSeq(hier, m + 3, Len(hier)), "/")

\* the extension the specification describes: from the last '.' of the last
\* segment of the URL's path, ".jpg" when that segment has none
UrlPathExtension(url) ==
    LET segment == AfterLast(UrlPath(url), "/")
        tail == AfterLast(segment, ".")
    IN  IF \A i \in 1..Len(segment) : segment[i] # "."
        THEN <<".", "jpg">>
        ELSE <<".">> \o tail

\* C9: the extension used for the destination is the part of the URL's path
\* from the last '.' of its last segment (query string and fragment are not
\* part of the path), and ".jpg" when that segment has no '.'.
C9_ExtensionIsFromUrlPath ==
    (pc = "image_wait") =>
        file_extension = UrlPathExtension(films[idx].image)

-----------------------------------------------------------------------------
(* C10 *)

\* C10: the one metadata request is answered before any image request is
\* issued, image requests are issued in the order of the list, never two
\* requests are in flight, and no record is requested twice.
C10_StrictlySequential ==
    /\ Cardinality(inflight) <= 1
    /\ log # <<>> => log[1] = <<"meta", 0>>
    /\ ImageRequests = 2..Len(log)
    /\ \A i, j \in ImageRequests : i < j => log[i][2] < log[j][2]
    /\ \A i \in ImageRequests :
         /\ log[i][2] \in 1..Len(films)
         /\ ~HasNoImage(films[log[i][2]])
    /\ ImageRequests # {} => (meta # NoMeta /\ <<"meta", 0>> \notin inflight)
    /\ \A r \in inflight : r = log[Len(log)]

\* a run of two records ended after the first download failed and the second
\* was made: three requests in all
C10_Witness ==
    /\ pc = "done"
    /\ log = <<(<<"meta", 0>>), (<<"image", 1>>), (<<"image", 2>>)>>
    /\ 1 \in Failed
    /\ 2 \in Succeeded

====
